---------------------------- MODULE Spec2Model ----------------------------
(***************************************************************************)
(* A model of I18nRailsEditKey.py, the Sublime Text plugin that edits and  *)
(* jumps to Rails i18n keys.  Text is kept as TLA+ strings and positions   *)
(* are 0-based offsets, as in the editor's API; regular expressions are    *)
(* evaluated character by character.                                       *)
(***************************************************************************)
EXTENDS Integers, Sequences, FiniteSets, TLC

VARIABLES
    view,       \* the view a function is applied to: [file_name, text, sel]
    rel_key,    \* the relative key handed to resolve_relative_key
    ret,        \* the value the function under study returned
    pc,         \* "call" before the function ran, "done" after
    fs,         \* the locales directory: file name -> data of the file
    dir_order,  \* the order in which the directory's files are listed
    jump,       \* the jump command's attributes: key, locales_map, _locale
    doc,        \* the lines the opened locale file was written with
    edit,       \* the edit command's attributes: key, locales, values, existing_map
    panel,      \* the window's open input panel or quick panel, with its callbacks' bindings
    timers,     \* the _jump_loaded callbacks that set_timeout_async holds
    settings,   \* the plugin settings
    log         \* what the commands did last: the latest run, prompts, write, opened file, traversal

vars == <<view, rel_key, ret, pc, fs, dir_order, jump, doc, edit, panel, timers, settings, log>>

\* The variables of the commands' user interface, and their value where no command runs.
cmdVars == <<edit, panel, timers, settings, log>>
NoCmd == edit = <<>> /\ panel = <<>> /\ timers = {} /\ settings = <<>> /\ log = <<>>

\* The variables of the jump into an opened file, and their value where it plays no part.
yamlVars == <<jump, doc>>
NoYaml == jump = <<>> /\ doc = <<>>

\* The variables of the locales directory, and their value where it plays no part.
dirVars == <<fs, dir_order>>
NoDir == fs = <<>> /\ dir_order = <<>>

\* The variables of a function call, and their value where none is studied.
callVars == <<view, rel_key, ret, pc>>

-----------------------------------------------------------------------------
(* Strings *)

\* Python's None; no key, path or value of the model contains a line break.
None == "\n<None>"

\* The character of s at 0-based offset i ("" outside s).
Ch(s, i) == IF i >= 0 /\ i < Len(s) THEN SubSeq(s, i + 1, i + 1) ELSE ""

\* s[a:b] of Python, for 0 <= a and any b.
Slice(s, a, b) == IF b <= a THEN "" ELSE SubSeq(s, a + 1, IF b > Len(s) THEN Len(s) ELSE b)

InStr(c, s) == \E i \in 0..(Len(s) - 1) : Ch(s, i) = c

Min(a, b) == IF a <= b THEN a ELSE b
Max(a, b) == IF a >= b THEN a ELSE b

Lower == "abcdefghijklmnopqrstuvwxyz"
Upper == "ABCDEFGHIJKLMNOPQRSTUVWXYZ"
Digits == "0123456789"

\* \w of the re module, on the characters the model uses.
IsWord(c) == c /= "" /\ (InStr(c, Lower) \/ InStr(c, Upper) \/ InStr(c, Digits) \/ c = "_")

\* \s of the re module.
IsSpace(c) == c = " " \/ c = "\t" \/ c = "\n"

\* str.startswith at an offset.
StartsAt(s, i, p) == Slice(s, i, i + Len(p)) = p /\ i + Len(p) <= Len(s)

RECURSIVE SkipSpaces(_, _)
\* The offset after a greedy \s* that starts at i.
SkipSpaces(s, i) == IF IsSpace(Ch(s, i)) THEN SkipSpaces(s, i + 1) ELSE i


-----------------------------------------------------------------------------
(* Regions and views of the editor *)

Region(a, b) == [a |-> a, b |-> b]
Begin(r) == Min(r.a, r.b)
End(r) == Max(r.a, r.b)
Empty(r) == r.a = r.b

\* sublime.Region.intersects, as the editor's sublime.py defines it.
intersects(lhs, rhs) ==
    LET lb == Begin(lhs)
        le == End(lhs)
        rb == Begin(rhs)
        re == End(rhs)
    IN  \/ (lb = rb /\ le = re)
        \/ (rb > lb /\ rb < le)
        \/ (re > lb /\ re < le)
        \/ (lb > rb /\ lb < re)
        \/ (le > rb /\ le < re)

RECURSIVE LineBegin(_, _)
\* view.line(pt).begin(): the offset after the last line break before pt.
LineBegin(text, pt) ==
    IF pt = 0 \/ Ch(text, pt - 1) = "\n" THEN pt ELSE LineBegin(text, pt - 1)

RECURSIVE LineEnd(_, _)
\* view.line(pt).end(): the offset of the next line break, or the size.
LineEnd(text, pt) ==
    IF pt >= Len(text) \/ Ch(text, pt) = "\n" THEN pt ELSE LineEnd(text, pt + 1)

-----------------------------------------------------------------------------
(* extract_key_from_t_call *)

NoMatch == [ok |-> FALSE, start |-> 0, end |-> 0, q1 |-> 0, ks |-> 0, ke |-> 0]

RECURSIVE KeyEnd(_, _)
\* The offset after the greedy run [^'"\n]+ that starts at i.
KeyEnd(s, i) ==
    IF i >= Len(s) \/ Ch(s, i) \in {"'", "\"", "\n"} THEN i ELSE KeyEnd(s, i + 1)

\* The length of (?:\bI18n\.t|\bt) matched at offset i, 0 when neither matches.
TCallHead(s, i) ==
    IF IsWord(Ch(s, i - 1)) THEN 0
    ELSE IF StartsAt(s, i, "I18n.t") THEN 6
    ELSE IF StartsAt(s, i, "t") THEN 1
    ELSE 0

\* re.match of the t-call pattern at offset i of s:
\*   (?:\bI18n\.t|\bt)\s*\(\s*(['"])([^'"\n]+)\1\s*\)
TCallAt(s, i) ==
    LET h  == TCallHead(s, i)
        p1 == SkipSpaces(s, i + h)
        p2 == SkipSpaces(s, p1 + 1)
        ks == p2 + 1
        ke == KeyEnd(s, ks)
        p3 == SkipSpaces(s, ke + 1)
    IN  IF /\ h > 0
           /\ Ch(s, p1) = "("
           /\ Ch(s, p2) \in {"'", "\""}
           /\ ke > ks
           /\ Ch(s, ke) = Ch(s, p2)
           /\ Ch(s, p3) = ")"
        THEN [ok |-> TRUE, start |-> i, end |-> p3 + 1, q1 |-> p2, ks |-> ks, ke |-> ke]
        ELSE NoMatch

RECURSIVE TCallFindIter(_, _)
\* re.finditer(pattern, s) from offset pos: the non-overlapping matches, left to right.
TCallFindIter(s, pos) ==
    IF pos >= Len(s) THEN <<>>
    ELSE LET m == TCallAt(s, pos)
         IN  IF m.ok THEN <<m>> \o TCallFindIter(s, m.end)
                     ELSE TCallFindIter(s, pos + 1)

\* The first loop's test (line 214): the selection overlaps the key, the
\* opening quote (group 1) or the whole call.
SelHitsCall(sel, base, m) ==
    \/ intersects(sel, Region(base + m.ks, base + m.ke))
    \/ intersects(sel, Region(base + m.q1, base + m.q1 + 1))
    \/ intersects(sel, Region(base + m.start, base + m.end))

\* CaretInCall with the call's end excluded.
CaretInCall_exclusive(sel, base, m) ==
    base + m.start <= Begin(sel) /\ Begin(sel) < base + m.end

\* The second loop's test (line 222): the caret is inside the call.
CaretInCall(sel, base, m) ==
    base + m.start <= Begin(sel) /\ Begin(sel) <= base + m.end

\* The index of the first match whose test passed, 0 when none did.
FirstMatch(passed) ==
    LET I == {i \in 1..Len(passed) : passed[i]}
    IN  IF I = {} THEN 0 ELSE CHOOSE i \in I : \A j \in I : i <= j

extract_key_from_t_call(v) ==
    IF v.sel = <<>> THEN None
    ELSE
      LET sel      == v.sel[1]
          base     == LineBegin(v.text, Begin(sel))
          line_txt == Slice(v.text, base, LineEnd(v.text, Begin(sel)))
          ms       == TCallFindIter(line_txt, 0)
          i1       == FirstMatch([i \in 1..Len(ms) |-> SelHitsCall(sel, base, ms[i])])
          i2       == FirstMatch([i \in 1..Len(ms) |-> CaretInCall(sel, base, ms[i])])
      IN  IF i1 > 0 THEN Slice(line_txt, ms[i1].ks, ms[i1].ke)
          ELSE IF Empty(sel) /\ i2 > 0 THEN Slice(line_txt, ms[i2].ks, ms[i2].ke)
          ELSE None

-----------------------------------------------------------------------------
(* is_rails_file, is_applicable_context *)

\* The lower-case letter of each upper-case letter.
LowerOf == [c \in {Ch(Upper, i) : i \in 0..25} |->
               Ch(Lower, CHOOSE i \in 0..25 : Ch(Upper, i) = c)]

RECURSIVE lower(_)
\* str.lower on the characters the model uses.
lower(s) ==
    IF s = "" THEN ""
    ELSE LET c == Ch(s, 0)
         IN  (IF c \in DOMAIN LowerOf THEN LowerOf[c] ELSE c) \o lower(Tail(s))

\* str.endswith
EndsWith(s, suffix) ==
    Len(s) >= Len(suffix) /\ Slice(s, Len(s) - Len(suffix), Len(s)) = suffix

\* is_rails_file in a variant that takes every named file.
is_rails_file_any(v) == v.file_name /= None /\ v.file_name /= ""

allowed_exts == {".rb", ".erb", ".haml", ".slim", ".rhtml", ".builder", ".jbuilder", ".rake"}

is_rails_file(v) ==
    IF v.file_name = None \/ v.file_name = "" THEN FALSE
    ELSE \E lowered \in {lower(v.file_name)} :
            \E ext \in allowed_exts : EndsWith(lowered, ext)

is_applicable_context(v) ==
    is_rails_file(v) /\ extract_key_from_t_call(v) /= None

-----------------------------------------------------------------------------
(* String helpers of the path and key functions *)

\* str.find: the first offset of p in s, -1 when absent.
Find(s, p) ==
    LET I == {i \in 0..(Len(s) - Len(p)) : StartsAt(s, i, p)}
    IN  IF I = {} THEN -1 ELSE CHOOSE i \in I : \A j \in I : i <= j

\* str.rfind: the last offset of p in s, -1 when absent.
RFind(s, p) ==
    LET I == {i \in 0..(Len(s) - Len(p)) : StartsAt(s, i, p)}
    IN  IF I = {} THEN -1 ELSE CHOOSE i \in I : \A j \in I : i >= j

RECURSIVE Split(_, _)
\* str.split(sep) for a one-character sep.
Split(s, sep) ==
    LET i == Find(s, sep)
    IN  IF i < 0 THEN <<s>> ELSE <<Slice(s, 0, i)>> \o Split(Slice(s, i + 1, Len(s)), sep)

RECURSIVE Join(_, _)
\* sep.join(parts)
Join(parts, sep) ==
    IF parts = <<>> THEN ""
    ELSE IF Len(parts) = 1 THEN parts[1]
    ELSE parts[1] \o sep \o Join(Tail(parts), sep)

RECURSIVE ReplaceChar(_, _, _)
\* str.replace(a, b) for one-character a.
ReplaceChar(s, a, b) ==
    IF s = "" THEN ""
    ELSE (IF Ch(s, 0) = a THEN b ELSE Ch(s, 0)) \o ReplaceChar(Tail(s), a, b)

RECURSIVE LStrip(_, _)
\* str.lstrip(c)
LStrip(s, c) == IF Ch(s, 0) = c THEN LStrip(Tail(s), c) ELSE s

\* [p for p in parts if p]
NonEmpty(parts) == SelectSeq(parts, LAMBDA x : x /= "")

\* list.index(x) as a 1-based index, 0 for ValueError.
IndexOf(parts, x) ==
    LET I == {i \in 1..Len(parts) : parts[i] = x}
    IN  IF I = {} THEN 0 ELSE CHOOSE i \in I : \A j \in I : i <= j

-----------------------------------------------------------------------------
(* strip_view_extensions *)

view_exts == {".erb", ".haml", ".slim", ".rhtml", ".builder", ".jbuilder",
              ".html", ".text", ".txt", ".json", ".xml", ".js", ".css",
              ".scss", ".sass"}

\* os.path.splitext(base)[1] for a name without separators: from the last
\* dot on, unless only dots precede it.
SplitExt(base) ==
    LET d == RFind(base, ".")
    IN  IF d > 0 /\ (\E i \in 0..(d - 1) : Ch(base, i) /= ".")
        THEN Slice(base, d, Len(base)) ELSE ""

RECURSIVE StripExtLoop(_)
\* The while loop of strip_view_extensions.
StripExtLoop(base) ==
    LET ext == SplitExt(base)
    IN  IF ext /= "" /\ lower(ext) \in view_exts
        THEN StripExtLoop(Slice(base, 0, Len(base) - Len(ext)))
        ELSE base

strip_view_extensions(fname) ==
    LET base == IF Ch(fname, 0) = "_" THEN Tail(fname) ELSE fname
    IN  StripExtLoop(base)

-----------------------------------------------------------------------------
(* infer_controller_action_at_point *)

NameChars == Lower \o Upper \o Digits \o "_!?"

RECURSIVE SkipBlanks(_, _)
\* The offset after a greedy [ \t]* that starts at i.
SkipBlanks(s, i) == IF Ch(s, i) \in {" ", "\t"} THEN SkipBlanks(s, i + 1) ELSE i

RECURSIVE NameEnd(_, _)
\* The offset after the greedy run [a-zA-Z0-9_!?]* that starts at i.
NameEnd(s, i) ==
    IF Ch(s, i) /= "" /\ InStr(Ch(s, i), NameChars) THEN NameEnd(s, i + 1) ELSE i

\* group(1) of ^[ \t]*def[ \t]+([a-zA-Z0-9_!?]+) matched at the line start ls,
\* "" when the line does not match.
DefNameAt(s, ls) ==
    LET p1 == SkipBlanks(s, ls)
        p2 == SkipBlanks(s, p1 + 3)
        p3 == NameEnd(s, p2)
    IN  IF StartsAt(s, p1, "def") /\ p2 > p1 + 3 /\ p3 > p2
        THEN Slice(s, p2, p3) ELSE ""

\* LastDefName taking matches[0] instead of matches[-1].
LastDefName_first(s) ==
    LET I == {ls \in 0..Len(s) : (ls = 0 \/ Ch(s, ls - 1) = "\n") /\ DefNameAt(s, ls) /= ""}
    IN  IF I = {} THEN None
        ELSE DefNameAt(s, CHOOSE i \in I : \A j \in I : i <= j)

\* matches[-1].group(1) of re.finditer(..., flags=re.MULTILINE), None without a match.
LastDefName(s) ==
    LET I == {ls \in 0..Len(s) : (ls = 0 \/ Ch(s, ls - 1) = "\n") /\ DefNameAt(s, ls) /= ""}
    IN  IF I = {} THEN None
        ELSE DefNameAt(s, CHOOSE i \in I : \A j \in I : i >= j)

infer_controller_action_at_point(v, pt) ==
    LastDefName(Slice(v.text, 0, pt))

-----------------------------------------------------------------------------
(* resolve_relative_key *)

\* path_after_views[:-1] + [strip_view_extensions(path_after_views[-1])]
ScopeParts(path_after_views) ==
    SubSeq(path_after_views, 1, Len(path_after_views) - 1)
        \o <<strip_view_extensions(path_after_views[Len(path_after_views)])>>

\* The views branch (lines 91-114): the segments after the first 'app' when
\* 'views' follows it, else the segments after the first 'views'.
ResolveViews(norm_path, rel) ==
    LET parts     == Split(norm_path, "/")
        idx_app   == IndexOf(parts, "app")
        idx_views == IndexOf(parts, "views")
        via_app   == idx_app > 0 /\ idx_app + 1 <= Len(parts) /\ parts[idx_app + 1] = "views"
        path_after_views ==
            IF via_app THEN SubSeq(parts, idx_app + 2, Len(parts))
            ELSE IF idx_views > 0 THEN SubSeq(parts, idx_views + 1, Len(parts))
            ELSE <<>>
    IN  IF path_after_views = <<>> THEN None
        ELSE Join(NonEmpty(ScopeParts(path_after_views)), ".") \o "." \o LStrip(rel, ".")

\* The controllers branch (lines 82-88).
ResolveController(v, norm_path, rel) ==
    LET after      == Slice(norm_path, Find(norm_path, "/app/controllers/") + 17, Len(norm_path))
        ctrl_base  == Slice(after, 0, Len(after) - 14)
        scope      == Join(NonEmpty(Split(ctrl_base, "/")), ".")
        caret      == IF v.sel /= <<>> THEN Begin(v.sel[1]) ELSE 0
        found      == infer_controller_action_at_point(v, caret)
        action     == IF found = None THEN "index" ELSE found
    IN  scope \o "." \o action \o "." \o LStrip(rel, ".")

resolve_relative_key(v, rel) ==
    IF v.file_name = None \/ v.file_name = "" THEN None
    ELSE LET norm_path == ReplaceChar(v.file_name, "\\", "/")
         IN  IF Find(norm_path, "/app/controllers/") >= 0 /\ EndsWith(norm_path, "_controller.rb")
             THEN ResolveController(v, norm_path, rel)
             ELSE ResolveViews(norm_path, rel)

-----------------------------------------------------------------------------
(* Maps, ordering *)

EmptyMap == [x \in {} |-> ""]

\* d[k] = v of a dict or Hash.
Put(f, k, v) == [x \in (DOMAIN f) \cup {k} |-> IF x = k THEN v ELSE f[x]]

\* d.get(k, default)
Get(f, k, default) == IF k \in DOMAIN f THEN f[k] ELSE default

\* The characters of the model in code point order.
Ascii == " !#'()-.0123456789:;?ABCDEFGHIJKLMNOPQRSTUVWXYZ[]_abcdefghijklmnopqrstuvwxyz"

Rank(c) == IF c = "" THEN 0 ELSE 1 + Find(Ascii, c)

RECURSIVE StrLess(_, _)
\* a < b of two strings (by code points).
StrLess(a, b) ==
    IF b = "" THEN FALSE
    ELSE IF a = "" THEN TRUE
    ELSE IF Ch(a, 0) = Ch(b, 0) THEN StrLess(Tail(a), Tail(b))
    ELSE Rank(Ch(a, 0)) < Rank(Ch(b, 0))

RECURSIVE Sorted(_)
\* sorted(S) of a set of strings.
Sorted(S) ==
    IF S = {} THEN <<>>
    ELSE LET m == CHOOSE x \in S : \A y \in S \ {x} : StrLess(x, y)
         IN  <<m>> \o Sorted(S \ {m})

\* The elements of a sequence.
Range(q) == {q[i] : i \in 1..Len(q)}

-----------------------------------------------------------------------------
(* Locale file names *)

IsLetter(c) == c /= "" /\ (InStr(c, Lower) \/ InStr(c, Upper))
IsAlnum(c) == c /= "" /\ (InStr(c, Lower) \/ InStr(c, Upper) \/ InStr(c, Digits))

\* ^([A-Za-z]{2,3}(?:[-_][A-Za-z0-9]+)?)$
IsLocaleName(b) ==
    \E k \in {2, 3} :
        /\ Len(b) >= k
        /\ \A i \in 0..(k - 1) : IsLetter(Ch(b, i))
        /\ \/ Len(b) = k
           \/ /\ Len(b) >= k + 2
              /\ Ch(b, k) \in {"-", "_"}
              /\ \A i \in (k + 1)..(Len(b) - 1) : IsAlnum(Ch(b, i))

\* group(1) of ^.+\.([A-Za-z]{2,3}(?:[-_][A-Za-z0-9]+)?)$, "" without a match.
ExtraLocale(b) ==
    LET d == RFind(b, ".")
    IN  IF d >= 1 /\ IsLocaleName(Slice(b, d + 1, Len(b))) THEN Slice(b, d + 1, Len(b)) ELSE ""

\* os.path.splitext(name)[0] / File.basename(file, ".yml") of a *.yml name.
BaseOf(name) == Slice(name, 0, Len(name) - 4)

\* loc.replace("_", "-") / loc.tr("_", "-")
Dash(loc) == ReplaceChar(loc, "_", "-")

\* loc.replace("-", "_") / loc.tr("-", "_")
Und(loc) == ReplaceChar(loc, "-", "_")

-----------------------------------------------------------------------------
(* list_locales *)

RECURSIVE ListLoop(_, _)
\* The for loop of list_locales over os.listdir(locales_dir): acc holds
\* primary (locale -> file name) and seen_locales.
ListLoop(names, acc) ==
    IF names = <<>> THEN acc
    ELSE LET name == Head(names)
             base == BaseOf(name)
         IN  IF ~EndsWith(lower(name), ".yml") THEN ListLoop(Tail(names), acc)
             ELSE IF IsLocaleName(base)
             THEN ListLoop(Tail(names),
                     [primary |-> Put(acc.primary, Dash(base), name),
                      seen    |-> acc.seen \cup {Dash(base)}])
             ELSE IF ExtraLocale(base) /= ""
             THEN ListLoop(Tail(names),
                     [primary |-> acc.primary, seen |-> acc.seen \cup {Dash(ExtraLocale(base))}])
             ELSE ListLoop(Tail(names), acc)

\* list_locales(locales_dir) for a directory whose listing is `names`:
\* the pairs (locale, primary file name), sorted by locale.
list_locales(names) ==
    LET acc  == ListLoop(names, [primary |-> EmptyMap, seen |-> {}])
        locs == Sorted(acc.seen)
    IN  [i \in 1..Len(locs) |-> <<locs[i], Get(acc.primary, locs[i], locs[i] \o ".yml")>>]

-----------------------------------------------------------------------------
(* The locale files.  A file's data is the sequence of its top-level keys, *)
(* each with the objects found below it: key path -> a string, or         *)
(* NotString for a nested mapping or any other object.                    *)

NotString == "\n<not a String>"

\* v.strip == ""
IsBlank(v) == \A i \in 0..(Len(v) - 1) : IsSpace(Ch(v, i))

\* load_yaml(path) of an existing file: fs[name]; of a missing one: {}.
load_yaml(files, name) == IF name \in DOMAIN files THEN files[name] ELSE <<>>

\* data and tops after lines 297-308: an empty file counts as an empty
\* mapping under the locale its name spells.
TopsOf(files, name) ==
    LET data == load_yaml(files, name)
        base == BaseOf(name)
    IN  IF data /= <<>> THEN data
        ELSE IF IsLocaleName(base) THEN <<[top |-> base, at |-> EmptyMap]>>
        ELSE IF ExtraLocale(base) /= "" THEN <<[top |-> ExtraLocale(base), at |-> EmptyMap]>>
        ELSE <<>>

\* deep_get(data, [loc] + parts) for the entry of loc: the object at the key
\* path, NotString for nil.
deep_get(entry, key) == Get(entry.at, key, NotString)

\* base == "#{loc}.yml" || base == "#{loc_norm}.yml" || base == "#{loc.tr('-', '_')}.yml"
IsPrimaryName(name, loc) ==
    name = loc \o ".yml" \/ name = Dash(loc) \o ".yml" \/ name = Und(loc) \o ".yml"

RECURSIVE FetchTops(_, _, _, _)
\* tops.each do |loc| ... end (lines 310-322) for one file.
FetchTops(name, tops, key, acc) ==
    IF tops = <<>> THEN acc
    ELSE LET loc      == Head(tops).top
             v        == deep_get(Head(tops), key)
             loc_norm == Dash(loc)
             seen     == [acc EXCEPT !.locales = @ \cup {loc_norm}]
         IN  IF v = NotString \/ IsBlank(v) THEN FetchTops(name, Tail(tops), key, seen)
             ELSE IF IsPrimaryName(name, loc)
             THEN FetchTops(name, Tail(tops), key,
                     [seen EXCEPT !.primary = Put(@, loc_norm, v)])
             ELSE FetchTops(name, Tail(tops), key,
                     [seen EXCEPT !.fallback =
                         IF loc_norm \in DOMAIN @ THEN @ ELSE Put(@, loc_norm, v)])

RECURSIVE FetchFiles(_, _, _, _)
\* Dir.glob(File.join(locales_dir, "*.yml")).each do |file| ... end
FetchFiles(files, names, key, acc) ==
    IF names = <<>> THEN acc
    ELSE FetchFiles(files, Tail(names), key,
            IF EndsWith(Head(names), ".yml")
            THEN FetchTops(Head(names), TopsOf(files, Head(names)), key, acc)
            ELSE acc)

\* RUBY_FETCH_VALUES preferring the fallback files to the primary one.
RUBY_FETCH_VALUES_fallback_first(files, names, key) ==
    LET acc == FetchFiles(files, names, key,
                   [primary |-> EmptyMap, fallback |-> EmptyMap, locales |-> {}])
    IN  [loc \in acc.locales |->
            IF loc \in DOMAIN acc.fallback THEN acc.fallback[loc]
            ELSE IF loc \in DOMAIN acc.primary THEN acc.primary[loc]
            ELSE ""]

\* RUBY_FETCH_VALUES on the files, globbed in the order `names`, for the
\* key path `key`: the JSON object it prints.
RUBY_FETCH_VALUES(files, names, key) ==
    LET acc == FetchFiles(files, names, key,
                   [primary |-> EmptyMap, fallback |-> EmptyMap, locales |-> {}])
    IN  [loc \in acc.locales |->
            IF loc \in DOMAIN acc.primary THEN acc.primary[loc]
            ELSE IF loc \in DOMAIN acc.fallback THEN acc.fallback[loc]
            ELSE ""]

\* primary_path of lines 375-376.
WritePath(files, loc) ==
    IF (Dash(loc) \o ".yml") \in DOMAIN files THEN Dash(loc) \o ".yml" ELSE Und(loc) \o ".yml"

\* top_key of line 382.
WriteTopKey(data, loc) ==
    LET I == {i \in 1..Len(data) : data[i].top \in {loc, Dash(loc), Und(loc)}}
    IN  IF I = {} THEN Dash(loc) ELSE data[CHOOSE i \in I : \A j \in I : i <= j].top

\* deep_set and sorted_hash on a file's data (lines 384-387).
WriteData(data, top_key, key, v) ==
    LET tops == Sorted({data[i].top : i \in 1..Len(data)} \cup {top_key})
        Old(t) == IF \E i \in 1..Len(data) : data[i].top = t
                  THEN data[CHOOSE i \in 1..Len(data) : data[i].top = t].at
                  ELSE EmptyMap
    IN  [i \in 1..Len(tops) |->
            [top |-> tops[i],
             at  |-> IF tops[i] = top_key THEN Put(Old(tops[i]), key, v) ELSE Old(tops[i])]]

RECURSIVE RUBY_WRITE_VALUES(_, _, _, _)
\* RUBY_WRITE_VALUES: values.each do |loc, v| ... end over the payload's
\* locales in order, for the key path `key`; the files afterwards.
RUBY_WRITE_VALUES(files, key, locs, vals) ==
    IF locs = <<>> THEN files
    ELSE LET loc  == Head(locs)
             path == WritePath(files, loc)
             data == load_yaml(files, path)
         IN  RUBY_WRITE_VALUES(
                 Put(files, path, WriteData(data, WriteTopKey(data, loc), key, vals[loc])),
                 key, Tail(locs), vals)

-----------------------------------------------------------------------------
(* I18nRailsJumpToKeyCommand: the YAML traversal helpers *)

\* str.splitlines(): the lines without their breaks; a final break adds no line.
SplitLines(text) ==
    IF text = "" THEN <<>>
    ELSE IF EndsWith(text, "\n") THEN Split(Slice(text, 0, Len(text) - 1), "\n")
    ELSE Split(text, "\n")

\* v.text_point(row, 0) for a 0-based row.
RECURSIVE TextPoint(_, _)
TextPoint(text, row) ==
    IF row = 0 THEN 0
    ELSE LET prev == TextPoint(text, row - 1) IN LineEnd(text, prev) + 1

RECURSIVE IndentFrom(_, _)
\* _indent: a space counts 1 and a tab 2, up to the first other character.
IndentFrom(line, i) ==
    IF Ch(line, i) = " " THEN 1 + IndentFrom(line, i + 1)
    ELSE IF Ch(line, i) = "\t" THEN 2 + IndentFrom(line, i + 1)
    ELSE 0

Indent(line) == IndentFrom(line, 0)

\* line.strip() == ""
StripIsEmpty(line) == IsBlank(line)

\* line.strip().startswith("#")
StripStartsHash(line) == Ch(line, SkipSpaces(line, 0)) = "#"

\* The length of (?:"key"|key) matched at offset i, 0 when neither matches
\* with the colon after it.
KeyColonAt(s, i, key_name) ==
    LET quoted == "\"" \o key_name \o "\""
    IN  IF StartsAt(s, i, quoted \o ":") THEN Len(quoted) + 1
        ELSE IF StartsAt(s, i, key_name \o ":") THEN Len(key_name) + 1
        ELSE 0

\* _line_starts_key
LineStartsKey(line, key_name, exact_indent) ==
    /\ Indent(line) = exact_indent
    /\ KeyColonAt(line, SkipSpaces(line, 0), key_name) > 0

RECURSIVE FindKeyLoop(_, _, _, _, _)
\* The while loop of _find_key_line_within_block from row i (0-based), with
\* child_indent -1 for None; the row found, -1 for None.
FindKeyLoop(lines, i, parent_indent, key_name, child_indent) ==
    IF i >= Len(lines) THEN [idx |-> -1, indent |-> -1]
    ELSE LET line == lines[i + 1]
             ind  == Indent(line)
         IN  IF ~StripIsEmpty(line) /\ ind <= parent_indent THEN [idx |-> -1, indent |-> -1]
             ELSE IF StripStartsHash(line) \/ StripIsEmpty(line)
             THEN FindKeyLoop(lines, i + 1, parent_indent, key_name, child_indent)
             ELSE LET ci == IF ind > parent_indent /\ child_indent = -1 THEN ind ELSE child_indent
                  IN  IF ind > parent_indent /\ ind = ci /\ LineStartsKey(line, key_name, ci)
                      THEN [idx |-> i, indent |-> ci]
                      ELSE FindKeyLoop(lines, i + 1, parent_indent, key_name, ci)

\* _find_key_line_within_block
FindKeyLineWithinBlock(lines, start_idx, parent_indent, key_name) ==
    FindKeyLoop(lines, start_idx + 1, parent_indent, key_name, -1)

\* The candidates of _find_locale_top and of line 658.
LocaleCandidates(locale) == {locale, Und(locale), Dash(locale)}

\* ^\s*(?:"loc"|loc):\s*$ on a line
IsLocaleTopLine(line, loc) ==
    LET p == SkipSpaces(line, 0)
        n == KeyColonAt(line, p, loc)
    IN  n > 0 /\ SkipSpaces(line, p + n) >= Len(line)

\* _find_locale_top: the first row that opens the locale, -1 for None.
FindLocaleTop(lines, locale) ==
    LET I == {i \in 1..Len(lines) :
                /\ ~StripStartsHash(lines[i])
                /\ Indent(lines[i]) = 0
                /\ \E loc \in LocaleCandidates(locale) : IsLocaleTopLine(lines[i], loc)}
    IN  IF I = {} THEN -1 ELSE (CHOOSE i \in I : \A j \in I : i <= j) - 1

\* The start of group (.+) of \s*(.+)$ tried at offset p of s: the greedy
\* \s* gives characters back until one that is no line break is left for
\* (.+); -1 when there is none.
ValueStart(s, p) ==
    LET top == SkipSpaces(s, p)
        I   == {q \in p..top : Ch(s, q) /= "" /\ Ch(s, q) /= "\n"}
    IN  IF I = {} THEN -1 ELSE CHOOSE q \in I : \A r \in I : q >= r

\* re.search(r'(?:"key"|key):\s*(.+)$', line_text): the span of group 1 for
\* the leftmost match, a = -1 when there is none.
SearchValue(line_text, key_name) ==
    LET I == {i \in 0..Len(line_text) :
                KeyColonAt(line_text, i, key_name) > 0
                /\ ValueStart(line_text, i + KeyColonAt(line_text, i, key_name)) >= 0}
    IN  IF I = {} THEN [a |-> -1, b |-> -1]
        ELSE LET i == CHOOSE i \in I : \A j \in I : i <= j
             IN  [a |-> ValueStart(line_text, i + KeyColonAt(line_text, i, key_name)),
                  b |-> Len(line_text)]

\* _value_region_on_line for the line at offset line_begin; a = -1 for None.
ValueRegionOnLine(line_text, line_begin, key_name) ==
    LET m     == SearchValue(line_text, key_name)
        value == Slice(line_text, m.a, m.b)
        hash  == Find(value, " #")
    IN  IF m.a < 0 THEN [a |-> -1, b |-> -1]
        ELSE [a |-> line_begin + m.a,
              b |-> IF hash /= -1 THEN line_begin + m.a + hash ELSE line_begin + m.b]

\* The fallback of lines 662-671: the span of group 3 of the first match of
\*   (^|\s)(?:"leaf"|leaf):\s*(.+)$   (re.MULTILINE) in the whole text.
FallbackRegion(text, leaf) ==
    LET KeyAt(i) == IF (i = 0 \/ Ch(text, i - 1) = "\n") /\ KeyColonAt(text, i, leaf) > 0 THEN i
                    ELSE IF IsSpace(Ch(text, i)) /\ KeyColonAt(text, i + 1, leaf) > 0 THEN i + 1
                    ELSE -1
        I == {i \in 0..Len(text) :
                KeyAt(i) >= 0 /\ ValueStart(text, KeyAt(i) + KeyColonAt(text, KeyAt(i), leaf)) >= 0}
    IN  IF I = {} THEN [a |-> -1, b |-> -1]
        ELSE LET i == CHOOSE i \in I : \A j \in I : i <= j
                 a == ValueStart(text, KeyAt(i) + KeyColonAt(text, KeyAt(i), leaf))
             IN  [a |-> a, b |-> LineEnd(text, a)]

RECURSIVE Traverse(_, _, _, _, _, _)
\* The for loop of _jump_loaded (lines 657-673) from part i (1-based): the
\* row of the last part, -1 when a part is not found.
Traverse(lines, key_parts, locale, i, current_idx, current_indent) ==
    IF i > Len(key_parts) THEN current_idx
    ELSE IF i = 1 /\ key_parts[i] \in LocaleCandidates(locale)
    THEN Traverse(lines, key_parts, locale, i + 1, current_idx, current_indent)
    ELSE LET found == FindKeyLineWithinBlock(lines, current_idx, current_indent, key_parts[i])
         IN  IF found.idx = -1 THEN -1
             ELSE Traverse(lines, key_parts, locale, i + 1, found.idx, found.indent)

\* _jump_loaded(v) once the file is loaded: the region it selects in the view
\* of `text` for self.key and self._locale, and how it was found
\* ("none": the selection is left alone).
JumpLoaded(text, key, locale) ==
    LET key_parts == Split(key, ".")
        lines     == SplitLines(text)
        top_idx   == FindLocaleTop(lines, locale)
        row       == Traverse(lines, key_parts, locale, 1, top_idx,
                              IF top_idx = -1 THEN -1 ELSE 0)
        leaf      == key_parts[Len(key_parts)]
    IN  IF row = -1
        THEN LET m == FallbackRegion(text, leaf)
             IN  IF m.a >= 0 THEN [sel |-> Region(m.a, m.b), how |-> "fallback"]
                 ELSE [sel |-> Region(-1, -1), how |-> "none"]
        ELSE LET begin == LineBegin(text, TextPoint(text, row))
                 end   == LineEnd(text, begin)
                 vr    == ValueRegionOnLine(Slice(text, begin, end), begin, leaf)
             IN  IF vr.a >= 0 THEN [sel |-> Region(vr.a, vr.b), how |-> "value"]
                 ELSE [sel |-> Region(begin, end), how |-> "line"]

-----------------------------------------------------------------------------
(* The inputs of extract_key_from_t_call *)

\* The pieces a line of source text is built from.
LineTokens == {"t('a')", "I18n.t( \"b\" )", "x", "\n"}

\* At most this many pieces in a text.
MaxTokens == 2

RECURSIVE Concats(_, _)
\* The texts of at most n pieces of T.
Concats(T, n) ==
    IF n = 0 THEN {""}
    ELSE LET S == Concats(T, n - 1)
         IN  S \cup {s \o t : s \in S, t \in T}

ExtractTexts == Concats(LineTokens, MaxTokens)

\* view.sel(): no selection, or one region anywhere in the text (either direction).
SelsOf(text) ==
    {<<>>} \cup {<<Region(a, b)>> : a \in 0..Len(text), b \in 0..Len(text)}

ExtractViews ==
    UNION {{[file_name |-> "/p/app/views/x.erb", text |-> t, sel |-> s] :
                s \in SelsOf(t)} : t \in ExtractTexts}

InitExtract ==
    /\ view \in ExtractViews
    /\ rel_key = ""
    /\ ret = None
    /\ pc = "call"
    /\ NoDir
    /\ NoYaml
    /\ NoCmd

\* key = extract_key_from_t_call(view)
Extract ==
    /\ pc = "call"
    /\ ret' = extract_key_from_t_call(view)
    /\ pc' = "done"
    /\ UNCHANGED <<view, rel_key>>
    /\ UNCHANGED dirVars
    /\ UNCHANGED yamlVars
    /\ UNCHANGED cmdVars

NextExtract == Extract

SpecExtract == InitExtract /\ [][NextExtract]_vars

-----------------------------------------------------------------------------
(* C1 *)

\* The calls on the line where the first selection begins, in buffer offsets.
CallsOnLine(v) ==
    LET base == LineBegin(v.text, Begin(v.sel[1]))
        line == Slice(v.text, base, LineEnd(v.text, Begin(v.sel[1])))
        ms   == TCallFindIter(line, 0)
    IN  [i \in 1..Len(ms) |->
            [start |-> base + ms[i].start, end |-> base + ms[i].end,
             key |-> Slice(line, ms[i].ks, ms[i].ke)]]

\* The selection shares a character with the call, or, when empty, the caret
\* lies between the call's start and end inclusive.
Qualifies(sel, c) ==
    IF Empty(sel) THEN c.start <= Begin(sel) /\ Begin(sel) <= c.end
    ELSE Begin(sel) < c.end /\ End(sel) > c.start

\* C1: extract_key_from_t_call returns the key of the leftmost call on the
\* line of the first selection that the selection overlaps (or, for an empty
\* selection, whose span holds the caret), and None when no call qualifies or
\* there is no selection.
C1_ExtractKey ==
    pc = "done" =>
        IF view.sel = <<>> THEN ret = None
        ELSE LET cs == CallsOnLine(view)
                 Q  == {i \in 1..Len(cs) : Qualifies(view.sel[1], cs[i])}
             IN  IF Q = {} THEN ret = None
                 ELSE ret = cs[CHOOSE i \in Q : \A j \in Q : i <= j].key

\* Two calls qualify at once (the caret sits where one ends and the next
\* begins) and the left one's key was returned.
C1_Witness ==
    /\ pc = "done"
    /\ view.sel /= <<>>
    /\ LET cs == CallsOnLine(view)
       IN  /\ Len(cs) = 2
           /\ Qualifies(view.sel[1], cs[1])
           /\ Qualifies(view.sel[1], cs[2])
           /\ cs[1].key /= cs[2].key
           /\ ret = cs[1].key

-----------------------------------------------------------------------------
(* The inputs of resolve_relative_key *)

\* The directory names that may lie above the project, and how many of them.
AboveNames == {"srv", "app", "views"}
MaxAbove == 2

RECURSIVE SeqsUpTo(_, _)
\* The sequences of at most n elements of S.
SeqsUpTo(S, n) ==
    IF n = 0 THEN {<<>>}
    ELSE LET T == SeqsUpTo(S, n - 1)
         IN  T \cup {Append(t, x) : t \in T, x \in S}

Aboves == SeqsUpTo(AboveNames, MaxAbove)

\* The directories between app/views and the template.
ViewDirs == {<<>>, <<"foo">>, <<"foo", "bar">>}

\* A template file: an optional leading underscore, a stem, template extensions.
ViewFiles ==
    [partial : BOOLEAN,
     stem    : {"baz", "a.pdf"},
     exts    : {<<>>, <<".erb">>, <<".html", ".erb">>, <<".HTML", ".Haml">>, <<".json", ".jbuilder">>}]

FileName(f) == (IF f.partial THEN "_" ELSE "") \o f.stem \o Join(f.exts, "")

\* "/" + each segment + "/", for the segments of a directory path.
DirPath(segs) == IF segs = <<>> THEN "/" ELSE "/" \o Join(segs, "/") \o "/"

\* The template f in directory d of app/views of the project that lies below the directories a.
ViewPath(a, d, f) ==
    DirPath(a \o <<"proj", "app", "views">> \o d) \o FileName(f)

CtrlDirs == {<<>>, <<"admin">>}
CtrlNames == {"users", "line_items"}

\* The controller n in directory d of app/controllers.
CtrlPath(d, n) ==
    DirPath(<<"srv", "proj", "app", "controllers">> \o d) \o n \o "_controller.rb"

\* The lines a controller's text is built from, and how many of them.
CtrlLines == {"def show\n", " def edit!; t('.x')\n", "#def no\n"}
MaxLines == 2

CtrlTexts == Concats(CtrlLines, MaxLines)

RelKeys == {".search", ".a.b"}

ResolveViews_Inputs ==
    {[file_name |-> ViewPath(a, d, f), text |-> "t('.search')", sel |-> <<Region(3, 3)>>] :
        a \in Aboves, d \in ViewDirs, f \in ViewFiles}

\* A controller with no selection, or with a caret anywhere in its text.
ResolveController_Inputs ==
    UNION {{[file_name |-> CtrlPath(d, n), text |-> t, sel |-> sl] :
                d \in CtrlDirs, n \in CtrlNames,
                sl \in {<<>>} \cup {<<Region(c, c)>> : c \in 0..Len(t)}} : t \in CtrlTexts}

\* abs_key = resolve_relative_key(self.view, selected)
Resolve ==
    /\ pc = "call"
    /\ ret' = resolve_relative_key(view, rel_key)
    /\ pc' = "done"
    /\ UNCHANGED <<view, rel_key>>
    /\ UNCHANGED dirVars
    /\ UNCHANGED yamlVars
    /\ UNCHANGED cmdVars

InitResolveView ==
    /\ view \in ResolveViews_Inputs
    /\ rel_key \in RelKeys
    /\ ret = None
    /\ pc = "call"
    /\ NoDir
    /\ NoYaml
    /\ NoCmd

NextResolveView == Resolve

SpecResolveView == InitResolveView /\ [][NextResolveView]_vars

InitResolveController ==
    /\ view \in ResolveController_Inputs
    /\ rel_key \in RelKeys
    /\ ret = None
    /\ pc = "call"
    /\ NoDir
    /\ NoYaml
    /\ NoCmd

NextResolveController == Resolve

SpecResolveController == InitResolveController /\ [][NextResolveController]_vars

-----------------------------------------------------------------------------
(* C3 *)

\* The key Rails' convention gives a template: its directories below
\* app/views, its stem, the relative key without its dot.
ViewKey(d, f, rel) == Join(d \o <<f.stem>>, ".") \o "." \o LStrip(rel, ".")

\* C3: for a file under app/views, resolve_relative_key returns the directory
\* segments after 'views', the file name without leading underscore and
\* template extensions, and the relative key, joined by dots, wherever the
\* project lies.
C3_ViewKey ==
    pc = "done" =>
        \A a \in Aboves, d \in ViewDirs, f \in ViewFiles :
            view.file_name = ViewPath(a, d, f) => ret = ViewKey(d, f, rel_key)

\* C3, for projects whose path has no directory 'app' and no directory
\* 'views' above the project.
C3_ViewKey_PlainAbove ==
    pc = "done" =>
        \A a \in Aboves, d \in ViewDirs, f \in ViewFiles :
            (view.file_name = ViewPath(a, d, f) /\ ~(IndexOf(a, "app") > 0 /\ IndexOf(a, "views") > 0))
                => ret = ViewKey(d, f, rel_key)

-----------------------------------------------------------------------------
(* C4 *)

\* The offsets at which the lines of a text start.
LineStarts(text) == {ls \in 0..Len(text) : ls = 0 \/ Ch(text, ls - 1) = "\n"}

\* The offset after the method name of the def line that starts at ls.
DefHeaderEnd(text, ls) == NameEnd(text, SkipBlanks(text, SkipBlanks(text, ls) + 3))

\* The def lines of the whole text whose 'def <name>' lies before the caret.
DefLinesAbove(text, caret) ==
    {ls \in LineStarts(text) : DefNameAt(text, ls) /= "" /\ DefHeaderEnd(text, ls) <= caret}

\* The action the caret is in: the method of the closest def line above it,
\* 'index' when there is none.
ActionAt(text, caret) ==
    LET I == DefLinesAbove(text, caret)
    IN  IF I = {} THEN "index" ELSE DefNameAt(text, CHOOSE i \in I : \A j \in I : i >= j)

CaretOf(v) == IF v.sel = <<>> THEN 0 ELSE Begin(v.sel[1])

CaretSplitsName(text, caret) ==
    \E ls \in LineStarts(text) :
        /\ DefNameAt(text, ls) /= ""
        /\ caret > DefHeaderEnd(text, ls) - Len(DefNameAt(text, ls))
        /\ caret < DefHeaderEnd(text, ls)

-----------------------------------------------------------------------------
(* The inputs of the fetch script *)

FetchNames == {"en.yml", "x.en.yml", "pt-BR.yml", "pt_BR.yml"}
FetchTopKeys == {"en", "pt_BR"}
FetchVals == {"a", "b", " ", NotString}

\* At most this many files in the locales directory.
MaxFiles == 2

\* A file's data: empty, or one top-level key with an object at the key path "k".
FetchData == {<<>>} \cup {<<[top |-> t, at |-> ("k" :> v)]>> : t \in FetchTopKeys, v \in FetchVals}

\* The orders in which the files of a set may be listed.
Orders(S) == {q \in [1..Cardinality(S) -> S] : Range(q) = S}

FetchDirs ==
    UNION {[N -> FetchData] : N \in {M \in SUBSET FetchNames : Cardinality(M) <= MaxFiles}}

InitFetch ==
    /\ fs \in FetchDirs
    /\ dir_order \in Orders(DOMAIN fs)
    /\ view = <<>>
    /\ rel_key = ""
    /\ ret = None
    /\ pc = "call"
    /\ NoYaml
    /\ NoCmd

\* ok, out = run_ruby(ruby_path, RUBY_FETCH_VALUES, [self.locales_dir, self.key])
Fetch ==
    /\ pc = "call"
    /\ ret' = RUBY_FETCH_VALUES(fs, dir_order, "k")
    /\ pc' = "done"
    /\ UNCHANGED <<view, rel_key, fs, dir_order>>
    /\ UNCHANGED yamlVars
    /\ UNCHANGED cmdVars

NextFetch == Fetch

SpecFetch == InitFetch /\ [][NextFetch]_vars

-----------------------------------------------------------------------------
(* C5 *)

FetchLocales == {"en", "pt-BR"}

\* The non-blank strings file `name` holds at the key under locale loc.
Held(name, loc) ==
    {fs[name][i].at["k"] : i \in {j \in 1..Len(fs[name]) :
        /\ Dash(fs[name][j].top) = loc
        /\ "k" \in DOMAIN fs[name][j].at
        /\ fs[name][j].at["k"] /= NotString
        /\ ~IsBlank(fs[name][j].at["k"])}}

\* The primary files of a locale: <locale>.yml in either spelling.
PrimaryFiles(loc) == {n \in DOMAIN fs : n = loc \o ".yml" \/ n = Und(loc) \o ".yml"}

\* The other files that hold a non-blank string under the locale, as positions of the read order.
OtherHolders(loc) ==
    {i \in 1..Len(dir_order) : dir_order[i] \notin PrimaryFiles(loc) /\ Held(dir_order[i], loc) /= {}}

-----------------------------------------------------------------------------
(* The inputs of the jump: locale files written line by line *)

\* A line of a locale file: a key at an indentation with a scalar value
\* ("" for a nested mapping) and a trailing note, or a comment line (key "#").
YamlLine(ind, key, val, note) == [ind |-> ind, key |-> key, val |-> val, note |-> note]
CommentLine(ind) == YamlLine(ind, "#", "", "")

RECURSIVE Spaces(_)
Spaces(n) == IF n = 0 THEN "" ELSE " " \o Spaces(n - 1)

RenderLine(l) ==
    Spaces(l.ind) \o
        (IF l.key = "#" THEN "# c"
         ELSE l.key \o ":" \o (IF l.val = "" THEN "" ELSE " " \o l.val) \o l.note)

RECURSIVE Render(_)
\* The text of a file of the given lines.
Render(d) == IF d = <<>> THEN "" ELSE RenderLine(Head(d)) \o "\n" \o Render(Tail(d))

LeafVals == {"hi", "\"x #y\""}

\* How the chosen locale's block is written: a top-level 'b' before 'a', a
\* sibling block 'c' holding its own 'b' before 'a', a comment line between
\* 'a:' and its 'b' (at indentation cmt, -1 for none), the value of a.b and
\* a trailing comment on its line.
BlockShapes ==
    [pre_b : BOOLEAN, sib : BOOLEAN, cmt : {-1, 0, 2, 4}, val : LeafVals, note : {"", " # c"}]

\* The block of the chosen locale.
Block(loc, sh) ==
    <<YamlLine(0, loc, "", "")>>
    \o (IF sh.pre_b THEN <<YamlLine(2, "b", "top", "")>> ELSE <<>>)
    \o (IF sh.sib THEN <<YamlLine(2, "c", "", ""), YamlLine(4, "b", "sib", "")>> ELSE <<>>)
    \o <<YamlLine(2, "a", "", "")>>
    \o (IF sh.cmt >= 0 THEN <<CommentLine(sh.cmt)>> ELSE <<>>)
    \o <<YamlLine(4, "b", sh.val, sh.note)>>

\* The block of another locale of the same file.
OtherBlock(loc) ==
    <<YamlLine(0, loc, "", ""), YamlLine(2, "b", "altro", ""),
      YamlLine(2, "a", "", ""), YamlLine(4, "b", "ciao", "")>>

JumpLocales == {"en", "it"}
JumpKeys == {"a.b", "b"}

\* The files that hold the chosen locale's block alone, after or before another locale's.
DocsFor(loc) ==
    LET other == CHOOSE o \in JumpLocales : o /= loc
    IN  UNION {{Block(loc, sh), OtherBlock(other) \o Block(loc, sh), Block(loc, sh) \o OtherBlock(other)} :
                sh \in BlockShapes}

InitYaml ==
    /\ jump \in [key : JumpKeys, _locale : JumpLocales]
    /\ doc \in DocsFor(jump._locale)
    /\ view = [file_name |-> jump._locale \o ".yml", text |-> Render(doc), sel |-> <<>>]
    /\ rel_key = ""
    /\ ret = None
    /\ pc = "call"
    /\ NoDir
    /\ NoCmd

\* _jump_loaded(v) for a loaded view
JumpToValue ==
    /\ pc = "call"
    /\ LET j == JumpLoaded(view.text, jump.key, jump._locale)
       IN  /\ view' = [view EXCEPT !.sel = IF j.how = "none" THEN @ ELSE <<j.sel>>]
           /\ ret' = j.how
    /\ pc' = "done"
    /\ UNCHANGED <<rel_key, jump, doc>>
    /\ UNCHANGED dirVars
    /\ UNCHANGED cmdVars

NextYaml == JumpToValue

SpecYaml == InitYaml /\ [][NextYaml]_vars

-----------------------------------------------------------------------------
(* C8 *)

\* The rows (1-based) of the mapping entries directly below row `parent` of
\* the file d (0 for the top level): the key lines that follow it up to the
\* next key line indented no deeper than it, at the indentation of the first.
ChildRows(d, parent) ==
    LET pind  == IF parent = 0 THEN -1 ELSE d[parent].ind
        after == {i \in (parent + 1)..Len(d) : d[i].key /= "#"}
        stop  == {i \in after : d[i].ind <= pind}
        last  == IF stop = {} THEN Len(d) ELSE (CHOOSE i \in stop : \A j \in stop : i <= j) - 1
        body  == {i \in after : i <= last}
    IN  IF body = {} THEN {}
        ELSE LET first == CHOOSE i \in body : \A j \in body : i <= j
             IN  {i \in body : d[i].ind = d[first].ind}

RECURSIVE LeafRow(_, _, _)
\* The row of the entry the path names below row `parent`, 0 when the file does not hold it.
LeafRow(d, parent, path) ==
    LET hits == {i \in ChildRows(d, parent) : d[i].key = Head(path)}
    IN  IF hits = {} THEN 0
        ELSE LET row == CHOOSE i \in hits : \A j \in hits : i <= j
             IN  IF Len(path) = 1 THEN row ELSE LeafRow(d, row, Tail(path))

\* The row of the key's leaf under the chosen locale's top-level key.
KeyRow(d, key, locale) == LeafRow(d, 0, <<locale>> \o Split(key, "."))

RECURSIVE RowOffset(_, _)
\* The offset at which row r of the rendered file starts.
RowOffset(d, r) == IF r = 1 THEN 0 ELSE RowOffset(d, r - 1) + Len(RenderLine(d[r - 1])) + 1

\* The span of the scalar value on row r: the text after 'key: ', without a trailing comment.
ValueSpan(d, r) ==
    LET a == RowOffset(d, r) + d[r].ind + Len(d[r].key) + 2
    IN  Region(a, a + Len(d[r].val))

\* C8: when the file holds the key's path as nested block mappings under the
\* chosen locale, the jump selects exactly the scalar value text on the line
\* of the leaf nested under each path segment in order (never a same-named
\* key of another block or locale), a trailing ' #' comment excluded.
C8_JumpSelectsValue ==
    (pc = "done" /\ KeyRow(doc, jump.key, jump._locale) > 0) =>
        view.sel = <<ValueSpan(doc, KeyRow(doc, jump.key, jump._locale))>>

\* The file has no comment line indented less than the entries around it,
\* and no ' #' inside a quoted value.
PlainFile(d) ==
    \A i \in 1..Len(d) :
        /\ d[i].key = "#" => (i > 1 /\ d[i].ind > d[i - 1].ind)
        /\ Find(d[i].val, " #") = -1

\* C8, for files without such comment lines and values.
C8_JumpSelectsValue_PlainFile ==
    (pc = "done" /\ PlainFile(doc) /\ KeyRow(doc, jump.key, jump._locale) > 0) =>
        view.sel = <<ValueSpan(doc, KeyRow(doc, jump.key, jump._locale))>>


-----------------------------------------------------------------------------
(* The commands.  Sublime Text keeps one instance of each command per view, *)
(* so the attributes that run and the callbacks set on self outlive an      *)
(* invocation.  The window shows at most one input panel and, above it, at  *)
(* most one quick panel.                                                    *)

NoPanel == [kind |-> "none"]

RECURSIVE RStrip(_)
RStrip(s) == IF s /= "" /\ IsSpace(Ch(s, Len(s) - 1)) THEN RStrip(Slice(s, 0, Len(s) - 1)) ELSE s

\* str.strip()
Strip(s) == RStrip(Slice(s, SkipSpaces(s, 0), Len(s)))

\* abs_key of run: the key for self.key, or the error of a relative key
\* that cannot be resolved.
AbsKey(abs_key) ==
    IF abs_key = None THEN [stage |-> "error", key |-> None]
    ELSE [stage |-> "key", key |-> abs_key]

\* run from selected on.
SelectedKey(v, selected) ==
    IF StartsAt(selected, 0, ".") THEN AbsKey(resolve_relative_key(v, selected))
    ELSE [stage |-> "key", key |-> selected]

\* run from key_from_call on.
KeyFromCall(v, key_from_call) ==
    IF key_from_call = None \/ key_from_call = "" THEN [stage |-> "skip", key |-> None]
    ELSE SelectedKey(v, Strip(key_from_call))

\* What run makes of the view, up to the assignment of self.key (the same
\* in both commands): "skip" for a return without a word, "error" for a
\* relative key that cannot be resolved, "key" with the value for self.key.
CallKey(v) ==
    IF ~is_rails_file(v) THEN [stage |-> "skip", key |-> None]
    ELSE KeyFromCall(v, extract_key_from_t_call(v))

\* A run that goes on without a look at the locales directory.
RunKey_any_dir(ck, env) ==
    IF ck.stage = "skip" THEN ck
    ELSE IF ~env.root THEN [stage |-> "error", key |-> None]
    ELSE ck

\* run up to the assignment of self.key, for ck = CallKey(self.view): the
\* error dialogs for a project root that is not found and a locales
\* directory that is none come before the resolution of a relative key.
\* env holds what the file system answers to find_project_root and
\* os.path.isdir.
RunKey(ck, env) ==
    IF ck.stage = "skip" THEN ck
    ELSE IF ~env.root THEN [stage |-> "error", key |-> None]
    ELSE IF ~env.isdir THEN [stage |-> "error", key |-> None]
    ELSE ck

\* locales = [loc for (loc, _p) in pairs]
LocalesOf(pairs) == [i \in 1..Len(pairs) |-> pairs[i][1]]

\* self.locales: locales[:] with default_locale_first moved to the front.
DefaultFirst(locales, default_locale) ==
    IF default_locale /= "" /\ default_locale \in Range(locales)
    THEN <<default_locale>> \o SelectSeq(locales, LAMBDA l : l /= default_locale)
    ELSE locales

\* "Value for [{}] {}".format(loc, self.key)
Caption(loc, key) == "Value for [" \o loc \o "] " \o key

\* The prefill of _prompt_next_locale.
Prefill(e, loc) ==
    LET prefill == Get(e.existing_map, loc, "")
        alt     == IF Find(loc, "-") >= 0 THEN Und(loc) ELSE Dash(loc)
    IN  IF prefill = "" THEN Get(e.existing_map, alt, "") ELSE prefill

\* The input panel that _prompt_next_locale(idx) shows when idx <
\* len(self.locales), with the idx and loc its callbacks are bound to;
\* inv names the invocation that began the sequence of prompts.
InputPanel(e, idx, inv) ==
    LET loc == e.locales[idx + 1]
    IN  [kind |-> "input", caption |-> Caption(loc, e.key), prefill |-> Prefill(e, loc),
         idx |-> idx, loc |-> loc, inv |-> inv]

\* The quick panel of the jump command, over the panel `under`.
QuickPanel(locales, inv, under) == [kind |-> "quick", items |-> locales, inv |-> inv, under |-> under]

\* The input panel that is open, be it under a quick panel.
InputOf(p) == IF p.kind = "quick" THEN p.under ELSE p

\* is_enabled of both commands.
is_enabled(v) == is_applicable_context(v)

\* self.values[loc] = value in a variant that drops the value.
on_input_drop(e, value, p) == e

\* _on_input up to the next prompt: self.values[loc] = value.  A value
\* remembers the caption of the prompt it was submitted at.
on_input(e, value, p) ==
    [e EXCEPT !.values = Put(@, p.loc, [text |-> value, caption |-> p.caption])]

\* _on_cancel
on_cancel(e) == [e EXCEPT !.values = EmptyMap]

\* json.dumps(self.values): locale -> text.
Payload(e) == [l \in DOMAIN e.values |-> e.values[l].text]

\* The callbacks the host calls when it closes the open panels for a new
\* one: on_cancel of an input panel (if the host calls it), on_select(-1)
\* of a quick panel, which returns at once.
Replaced(e, old, called) ==
    IF called /\ InputOf(old).kind = "input" THEN on_cancel(e) ELSE e

\* dict(pairs) as list(d.keys()) walks it: the plugin host of Sublime Text 3
\* runs Python 3.3, whose dicts iterate in an arbitrary order; newer hosts
\* iterate in insertion order, which is one of these.
DictOrders(pairs) == {q \in [1..Len(pairs) -> Range(pairs)] : Range(q) = Range(pairs)}

\* The listing of a directory after a script created files in it.
ListingAfter(order, files) == order \o Sorted(DOMAIN files \ Range(order))


-----------------------------------------------------------------------------
(* The commands at work in one view *)

\* At most this many invocations of the commands.
MaxRuns == 2

\* The view: one line with an absolute and a relative key.
CmdText == "x t('k') t('.r')"
CmdFiles == {"/srv/proj/app/views/foo/_baz.html.erb", "/srv/proj/lib/x.rb", "/srv/proj/README.txt"}

\* The carets the user puts into the line: outside the calls, in the first, in the second.
Carets == {0, 4, 12}

\* The locales directories.
CmdDirs ==
    { EmptyMap,
      ("en.yml" :> <<[top |-> "en", at |-> EmptyMap]>>)
          @@ ("x.pt-BR.yml" :> <<[top |-> "pt-BR", at |-> ("k" :> "b")]>>),
      ("pt_BR.yml" :> <<[top |-> "pt_BR", at |-> ("k" :> "c")]>>) }

\* What the user types at a prompt.
Typed == {"v"}

\* What the environment answers during one run: is a project root found,
\* is the locales directory a directory, how does run_ruby end with the
\* fetch script.  "ok": exit status 0 and JSON on the output; "failed":
\* another exit status (CalledProcessError, ok is False); "invalid": exit
\* status 0 and an output json.loads rejects; "nolaunch": the interpreter
\* could not be started, check_output raises an OSError that run_ruby and
\* run leave uncaught.
Envs ==
    { [root |-> TRUE,  isdir |-> TRUE,  fetch |-> "ok"],
      [root |-> FALSE, isdir |-> TRUE,  fetch |-> "ok"],
      [root |-> TRUE,  isdir |-> FALSE, fetch |-> "ok"],
      [root |-> TRUE,  isdir |-> TRUE,  fetch |-> "failed"],
      [root |-> TRUE,  isdir |-> TRUE,  fetch |-> "invalid"],
      [root |-> TRUE,  isdir |-> TRUE,  fetch |-> "nolaunch"] }

\* No answer: the latest run was not one of the edit command, or it
\* returned before it asked for the project root.
NoEnv == [asked |-> FALSE, root |-> TRUE, isdir |-> TRUE, fetch |-> "unasked"]

\* The answers an edit run got.
Answers(env) == [asked |-> TRUE, root |-> env.root, isdir |-> env.isdir, fetch |-> env.fetch]

\* The answers an edit run got that ended before run_ruby.
Unfetched(env) == [Answers(env) EXCEPT !.fetch = "unasked"]

InitCmd ==
    /\ view \in {[file_name |-> f, text |-> CmdText, sel |-> <<Region(0, 0)>>] : f \in CmdFiles}
    /\ fs \in CmdDirs
    /\ dir_order = Sorted(DOMAIN fs)
    /\ settings \in [default_locale_first : {"", "pt-BR"}]
    /\ edit = [key |-> None, locales |-> <<>>, values |-> EmptyMap, existing_map |-> EmptyMap]
    /\ jump = [key |-> None, locales_map |-> <<>>, _locale |-> None]
    /\ panel = NoPanel
    /\ timers = {}
    /\ log = [runs |-> 0, outcome |-> "", env |-> NoEnv, opened |-> {}, writes |-> {}, jumped |-> {}, hist |-> <<>>]
    /\ rel_key = ""
    /\ ret = None
    /\ pc = "call"
    /\ doc = <<>>

\* The record of an invocation: how its run ended.  "skip": it returned
\* without a word; "error": an error dialog and no script; "failed": the
\* fetch script ran, then an error dialog; "raised": run_ruby raised, the
\* run ends with the exception and without a dialog; "prompt": the fetch
\* script ran, then the first prompt; "panel": the quick panel.
Ended(inv, outcome) == [log EXCEPT !.runs = inv, !.outcome = outcome, !.env = NoEnv]

\* The record of an edit run that got the answers a.
EndedEdit(inv, outcome, a) == [Ended(inv, outcome) EXCEPT !.env = a]

\* The record of the prompts of the latest edit: the host called on_cancel of the panel `old`.
HistCancel(h, old, called) ==
    IF called /\ InputOf(old).kind = "input" THEN [h EXCEPT ![InputOf(old).inv].cancelled = TRUE] ELSE h

\* The user puts the caret somewhere in the line.
MoveCaret == \E c \in Carets : view' = [view EXCEPT !.sel = <<Region(c, c)>>]

\* The user puts the caret and invokes the edit command: I18nRailsEditKeyCommand.run
EditRun ==
    /\ log.runs < MaxRuns
    /\ MoveCaret
    /\ \E ck \in {CallKey(view')}, locales \in {LocalesOf(list_locales(dir_order))} :
        LET inv == log.runs + 1
        IN  IF ck.stage = "skip"
            THEN /\ log' = Ended(inv, "skip")
                 /\ UNCHANGED <<edit, panel>>
            ELSE \E env \in Envs : \E r \in {RunKey(ck, env)} :
                 IF r.stage = "error"
            THEN /\ log' = EndedEdit(inv, "error", Unfetched(env))
                 /\ UNCHANGED <<edit, panel>>
            ELSE IF Len(locales) = 0
            THEN /\ edit' = [edit EXCEPT !.key = r.key]
                 /\ log' = EndedEdit(inv, "error", Unfetched(env))
                 /\ UNCHANGED panel
            ELSE IF env.fetch = "nolaunch"
            THEN /\ edit' = [edit EXCEPT !.key = r.key]
                 /\ log' = EndedEdit(inv, "raised", Answers(env))
                 /\ UNCHANGED panel
            ELSE IF env.fetch /= "ok"
            THEN /\ edit' = [edit EXCEPT !.key = r.key]
                 /\ log' = EndedEdit(inv, "failed", Answers(env))
                 /\ UNCHANGED panel
            ELSE \E e \in {[key          |-> r.key,
                           locales      |-> DefaultFirst(locales, settings.default_locale_first),
                           values       |-> EmptyMap,
                           existing_map |-> RUBY_FETCH_VALUES(fs, dir_order, r.key)]} :
                     \* on_cancel of the prompt this one replaces, if the host
                     \* calls it, empties self.values, which is empty
                     /\ edit' = Replaced(e, panel, TRUE)
                     /\ panel' = InputPanel(e, 0, inv)
                     /\ log' = [EndedEdit(inv, "prompt", Answers(env)) EXCEPT
                                  !.hist = inv :> [locales |-> locales, prompted |-> <<e.locales[1]>>,
                                                   submitted |-> 0, cancelled |-> FALSE,
                                                   writes |-> 0, wrote |-> {}, files |-> fs]]
    /\ UNCHANGED <<rel_key, ret, pc, doc, jump, timers, settings>>
    /\ UNCHANGED dirVars

\* The user submits a value at the open prompt: its on_done callback,
\* _on_input(value, idx, loc), and with it the next prompt or _write_values.
Submit ==
    /\ panel.kind = "input"
    /\ \E value \in Typed :
        \E e1 \in {on_input(edit, value, panel)} :
        LET nxt == panel.idx + 1
            h1  == [log.hist EXCEPT ![panel.inv].submitted = @ + 1]
        IN  /\ edit' = e1
            /\ IF nxt < Len(e1.locales)
               THEN /\ panel' = InputPanel(e1, nxt, panel.inv)
                    /\ log' = [log EXCEPT !.hist =
                                  [h1 EXCEPT ![panel.inv].prompted = Append(@, e1.locales[nxt + 1])]]
                    /\ UNCHANGED dirVars
               ELSE /\ panel' = NoPanel
                    /\ IF DOMAIN e1.values = {}
                       THEN /\ log' = [log EXCEPT !.hist = h1]
                            /\ UNCHANGED dirVars
                       ELSE \E ok \in BOOLEAN :
                            /\ fs' = IF ok THEN RUBY_WRITE_VALUES(fs, e1.key, e1.locales, Payload(e1)) ELSE fs
                            /\ dir_order' = ListingAfter(dir_order, fs')
                            /\ log' = [log EXCEPT
                                  !.writes = {[key |-> e1.key, values |-> e1.values, ok |-> ok]},
                                  !.hist = [h1 EXCEPT ![panel.inv].writes = @ + 1,
                                                      ![panel.inv].wrote = DOMAIN e1.values]]
    /\ UNCHANGED <<view, rel_key, ret, pc, doc, jump, timers, settings>>

\* The user dismisses the open panel: _on_cancel(idx) of a prompt,
\* _on_pick_locale(-1) of the quick panel.
Cancel ==
    /\ panel.kind /= "none"
    /\ IF panel.kind = "quick"
       THEN /\ panel' = panel.under
            /\ UNCHANGED <<edit, log>>
       ELSE /\ panel' = NoPanel
            /\ edit' = on_cancel(edit)
            /\ log' = [log EXCEPT !.hist = HistCancel(@, panel, TRUE)]
    /\ UNCHANGED <<view, rel_key, ret, pc, doc, jump, timers, settings>>
    /\ UNCHANGED dirVars

\* The user puts the caret and invokes the jump command: I18nRailsJumpToKeyCommand.run
JumpRun ==
    /\ log.runs < MaxRuns
    /\ MoveCaret
    /\ \E ck \in {CallKey(view')}, pairs \in {list_locales(dir_order)} :
        LET inv == log.runs + 1
        IN  IF ck.stage = "skip"
            THEN /\ log' = Ended(inv, "skip")
                 /\ UNCHANGED <<jump, edit, panel>>
            ELSE \E env \in {e \in Envs : e.fetch = "ok"} : \E r \in {RunKey(ck, env)} :
                 IF r.stage = "error"
            THEN /\ log' = Ended(inv, "error")
                 /\ UNCHANGED <<jump, edit, panel>>
            ELSE IF Len(pairs) = 0
            THEN /\ jump' = [jump EXCEPT !.key = r.key]
                 /\ log' = Ended(inv, "error")
                 /\ UNCHANGED <<edit, panel>>
            ELSE \E host \in {"cancel", "close", "keep"} :
                 /\ \E d \in DictOrders(pairs) :
                        jump' = [jump EXCEPT !.key = r.key, !.locales_map = d]
                 /\ panel' = QuickPanel(LocalesOf(pairs), inv,
                                        IF host = "keep" THEN InputOf(panel) ELSE NoPanel)
                 /\ edit' = Replaced(edit, panel, host = "cancel")
                 /\ log' = [Ended(inv, "panel") EXCEPT !.hist = HistCancel(@, panel, host = "cancel")]
    /\ UNCHANGED <<rel_key, ret, pc, doc, timers, settings>>
    /\ UNCHANGED dirVars

\* The user picks entry idx of the quick panel: _on_pick_locale(idx).
Pick ==
    /\ panel.kind = "quick"
    /\ \E idx \in 0..(Len(panel.items) - 1) :
        LET locale    == jump.locales_map[idx + 1][1]
            file_path == jump.locales_map[idx + 1][2]
            shown     == panel.items[idx + 1]
        IN  /\ jump' = [jump EXCEPT !._locale = locale]
            /\ log' = [log EXCEPT !.opened = {[shown |-> shown, file |-> file_path,
                                               pairs |-> list_locales(dir_order)]}]
            /\ timers' = timers \cup {[inv |-> panel.inv, shown |-> shown, file |-> file_path]}
    /\ panel' = panel.under
    /\ UNCHANGED <<view, rel_key, ret, pc, doc, edit, settings>>
    /\ UNCHANGED dirVars

\* _jump_loaded(v) once v is loaded: the traversal of the opened file for
\* the key and the locale that self.key and self._locale hold by now.
JumpTraverse ==
    /\ \E t \in timers :
        /\ timers' = timers \ {t}
        /\ log' = [log EXCEPT !.jumped = {[shown |-> t.shown, file |-> t.file,
                                           key |-> jump.key, locale |-> jump._locale]}]
    /\ UNCHANGED <<view, rel_key, ret, pc, doc, jump, edit, panel, settings>>
    /\ UNCHANGED dirVars

NextCmd ==
    \/ EditRun
    \/ Submit
    \/ Cancel
    \/ JumpRun
    \/ Pick
    \/ JumpTraverse

SpecCmd == InitCmd /\ [][NextCmd]_vars


-----------------------------------------------------------------------------
(* C2 *)

\* The extensions of Rails files.
RailsExts == {".rb", ".erb", ".haml", ".slim", ".rhtml", ".builder", ".jbuilder", ".rake"}

\* The context is applicable: a Rails file, and the caret or selection is
\* inside a call on its line.
Applicable(v) ==
    /\ \E x \in RailsExts : EndsWith(v.file_name, x)
    /\ v.sel /= <<>>
    /\ \E c \in Range(CallsOnLine(v)) : Qualifies(v.sel[1], c)

\* C2: in a context that is not applicable, is_enabled is False, and a run
\* of either command shows no prompt, quick panel or error message, runs no
\* script and opens or changes no file: it leaves everything as it was.
C2_OnlyInApplicableContext ==
    [][(log'.runs /= log.runs /\ ~Applicable(view')) =>
                /\ ~is_enabled(view')
                /\ log'.outcome = "skip"
                /\ panel' = panel
                /\ timers' = timers
                /\ fs' = fs /\ dir_order' = dir_order
                /\ edit' = edit /\ jump' = jump
                /\ log'.opened = log.opened /\ log'.writes = log.writes]_vars

\* A command was run with the caret outside the calls while a prompt of an
\* earlier invocation was open, and the prompt is still the open panel.
C2_Witness ==
    /\ log.runs = 2
    /\ log.outcome = "skip"
    /\ ~Applicable(view)
    /\ is_rails_file(view)
    /\ InputOf(panel).kind = "input"

-----------------------------------------------------------------------------
(* C6 *)

\* The primary file of a locale: the dash-spelled <locale>.yml, or the
\* underscore-spelled one when only that exists.
PrimaryFile(files, loc) ==
    IF (Dash(loc) \o ".yml") \notin DOMAIN files /\ (Und(loc) \o ".yml") \in DOMAIN files
    THEN Und(loc) \o ".yml"
    ELSE Dash(loc) \o ".yml"

\* C6: every file of the locales directory that a step creates or modifies
\* is the primary file of a locale the edit has a value for.
C6_WritesOnlyPrimary ==
    [][\A n \in DOMAIN fs' :
          (n \notin DOMAIN fs \/ fs'[n] /= fs[n]) =>
              \E loc \in DOMAIN edit'.values : n = PrimaryFile(fs, loc)]_vars

\* C6 where some spelling of <locale>.yml exists for every locale written:
\* only primary files change.
C6_WritesOnlyPrimary_Existing ==
    [][(\A loc \in DOMAIN edit'.values :
            (Dash(loc) \o ".yml") \in DOMAIN fs \/ (Und(loc) \o ".yml") \in DOMAIN fs) =>
        \A n \in DOMAIN fs' :
          (n \notin DOMAIN fs \/ fs'[n] /= fs[n]) =>
              \E loc \in DOMAIN edit'.values : n = PrimaryFile(fs, loc)]_vars

-----------------------------------------------------------------------------
(* C7 *)

\* C7: the file opened by a pick is the path list_locales paired with the
\* locale displayed at the picked position, and the traversal of the opened
\* file looks for that locale.
C7_PickOpensShown ==
    /\ \A o \in log.opened : <<o.shown, o.file>> \in Range(o.pairs)
    /\ \A j \in log.jumped : j.locale = j.shown

-----------------------------------------------------------------------------
(* C9 *)

\* C9: the prompts of an edit come one at a time, one per detected locale,
\* each after a value was submitted at the one before; the write script has
\* run exactly once when a value was submitted at every prompt, with one
\* value per detected locale, and not at all before; after a cancel there is
\* no prompt and no write, and no locale file has changed.
C9_PromptsThenOneWrite ==
    \A i \in DOMAIN log.hist :
        LET h == log.hist[i]
            n == Len(h.locales)
        IN  /\ Len(h.prompted) = Min(h.submitted + 1, n)
            /\ \A a, b \in 1..Len(h.prompted) : a /= b => h.prompted[a] /= h.prompted[b]
            /\ Range(h.prompted) \subseteq Range(h.locales)
            /\ h.writes = (IF h.submitted = n THEN 1 ELSE 0)
            /\ h.writes = 1 => h.wrote = Range(h.locales)
            /\ h.writes = 0 => fs = h.files
            /\ h.cancelled => h.writes = 0 /\ h.submitted < n /\ InputOf(panel).kind /= "input"

\* An edit of two locales, the default locale asked first, was written.
C9_Witness ==
    \E i \in DOMAIN log.hist :
        /\ log.hist[i].prompted = <<"pt-BR", "en">>
        /\ log.hist[i].submitted = 2
        /\ log.hist[i].writes = 1
        /\ fs /= log.hist[i].files

-----------------------------------------------------------------------------
(* C10 *)

\* C10: every value handed to the write script was submitted at a prompt
\* whose caption named the key and the locale it is written under.
C10_ValuesOfOwnPrompt ==
    \A w \in log.writes :
        \A loc \in DOMAIN w.values : w.values[loc].caption = Caption(loc, w.key)

-----------------------------------------------------------------------------
(* C11 *)

\* What makes an edit run fail, for a run from the state before to the state
\* after: no project root, no locales directory, a relative key that does
\* not resolve, no locale in the directory, a fetch script that exits with
\* an error or prints what is not JSON.
EditFails ==
    \/ ~log'.env.root
    \/ ~log'.env.isdir
    \/ list_locales(dir_order) = <<>>
    \/ log'.env.fetch \in {"failed", "invalid"}
    \/ CallKey(view').stage = "error"

=============================================================================
